---- MODULE Spec2Model ----
(***************************************************************************)
(* Model of src/src/vllm_deploy.py: the controller that checks its         *)
(* requirements, spawns one vLLM worker per GPU group, renders the Nginx   *)
(* configuration, spawns Nginx, supervises the pool in a monitoring loop   *)
(* and signals every registered process from its atexit handler.           *)
(*                                                                         *)
(* The controller is a single Python thread; pc is its position.  The      *)
(* worker and Nginx processes run on their own and may exit at any time.   *)
(* SIGINT may arrive between any two steps of the controller and is        *)
(* raised as KeyboardInterrupt at the statement being executed.            *)
(***************************************************************************)
EXTENDS Integers, Sequences, FiniteSets, TLC

\* ---- bounds of the model ------------------------------------------------
MaxWorkers == 2
MaxInterrupts == 2
MaxTicks == 6
Epoch == 1000

\* ---- configuration (argparse defaults and module constants) -------------
START_PORT == 8000
NGINX_PORT == 8080
STATS_INTERVAL == 5

NoConf == [upstream |-> <<>>, listen |-> 0, rendered |-> FALSE]

VARIABLES
    gpus_arg,           \* ARGS.gpus, a string (sequence of characters)
    port_arg,           \* ARGS.port
    resp,               \* outcome of the requests.get of get_worker_stats
    stats,              \* what get_worker_stats returned for resp
    GPU_GROUPS,         \* parsed GPU groups, one per worker
    nginx_installed,    \* result of shutil.which("nginx")
    ports_in_use,       \* ports on which connect_ex succeeds
    pc,                 \* position of the controller
    i,                  \* loop index of check_requirements / of the worker scan
    checked_ports,      \* worker ports check_requirements has probed
    procs,              \* every process spawned so far, indexed by handle
    RUNNING_PROCESSES,  \* registry of handles
    worker_ports,
    current_port,
    nginx_conf,         \* contents of NGINX_CONF
    nginx_proc,         \* handle of Nginx, 0 before it is spawned
    last_stats_time,
    current_time,
    now,                \* time.time()
    rows,               \* rows built by print_stats_table
    reports,            \* crash reports printed in the current iteration
    last_reports,       \* crash reports printed in the iteration before
    ci,                 \* position of cleanup_processes in the registry
    cleanup_runs,       \* number of times cleanup_processes was entered
    interrupts,         \* number of SIGINTs delivered
    exit_status,        \* -1 while running, then the interpreter's exit status
    exit_cause          \* why main() was left

envVars   == <<gpus_arg, port_arg, resp, stats, GPU_GROUPS, nginx_installed, ports_in_use>>
setupVars == <<RUNNING_PROCESSES, worker_ports, current_port, nginx_conf, nginx_proc>>
loopVars  == <<last_stats_time, current_time, now, rows, reports, last_reports>>
exitVars  == <<ci, cleanup_runs, exit_status, exit_cause>>
vars == <<gpus_arg, port_arg, resp, stats, GPU_GROUPS, nginx_installed, ports_in_use, pc, i, checked_ports, procs,
          RUNNING_PROCESSES, worker_ports, current_port, nginx_conf, nginx_proc,
          last_stats_time, current_time, now, rows, reports, last_reports,
          ci, cleanup_runs, interrupts, exit_status, exit_cause>>

SetupPcs   == {"check_nginx", "check_lb_port", "check_worker_port", "clean_logs",
               "popen", "register", "popen_nginx", "register_nginx"}
LoopPcs    == {"sleep", "poll", "proxy_check", "worker_scan"}
CleanupPcs == {"cleanup_poll", "cleanup_kill"}

\* ---- exceptions -----------------------------------------------------------
\* Python's hierarchy: KeyboardInterrupt and SystemExit derive from
\* BaseException only; the others derive from Exception.
ExceptionSubclasses ==
    {"OSError", "ConnectionError", "Timeout", "ValueError", "OverflowError"}

Catches(clause, exc) ==
    \/ clause = "BaseException"
    \/ clause = "Exception" /\ exc \in ExceptionSubclasses
    \/ clause = exc

\* Variant: get_worker_stats catches connection errors only.
get_worker_stats_except_narrow == "ConnectionError"
\* Variant: a bare except in get_worker_stats.
get_worker_stats_except_bare == "BaseException"
\* line 158
get_worker_stats_except == "Exception"
\* Variant: cleanup_processes catches another exception class.
cleanup_except_wrong == "ValueError"
\* line 137
cleanup_except == "OSError"
\* line 331
main_except == "KeyboardInterrupt"

\* ---- pure helpers ---------------------------------------------------------
\* Variant: connect_ex is never reported as succeeding.
is_port_in_use_never(port) == FALSE

\* lines 127-129
is_port_in_use(port) == port \in ports_in_use

WorkerPort(k) == START_PORT + k

\* Variant: the upstream loop stops one port short.
generate_nginx_config_short(port_list) ==
    [upstream |-> [k \in 1..(Len(port_list) - 1) |-> <<"127.0.0.1", port_list[k]>>],
     listen   |-> NGINX_PORT,
     rendered |-> TRUE]

\* Variant: the server always listens on the default port.
RenderConfig_default_listen(port_list, listen_port) ==
    [upstream |-> [k \in 1..Len(port_list) |-> <<"127.0.0.1", port_list[k]>>],
     listen   |-> 8080,
     rendered |-> TRUE]

\* lines 204-230: the upstream block has one 'server 127.0.0.1:PORT;' line per
\* element of port_list, the server block one 'listen' line.
RenderConfig(port_list, listen_port) ==
    [upstream |-> [k \in 1..Len(port_list) |-> <<"127.0.0.1", port_list[k]>>],
     listen   |-> listen_port,
     rendered |-> TRUE]

\* lines 203-232, with the module's NGINX_PORT
generate_nginx_config(port_list) == RenderConfig(port_list, NGINX_PORT)

\* Variant: the value is rounded to the nearest integer.
IntOfFloat_rounds(token) ==
    CASE token = "0.0"   -> [exc |-> "none", value |-> 0]
      [] token = "3.0"   -> [exc |-> "none", value |-> 3]
      [] token = "3.7"   -> [exc |-> "none", value |-> 4]
      [] token = "128.0" -> [exc |-> "none", value |-> 128]
      [] token = "inf"   -> [exc |-> "OverflowError", value |-> 0]
      [] OTHER           -> [exc |-> "ValueError", value |-> 0]

\* int(float(token)) for the last token of a metrics line: exc is
\* "ValueError" when float() rejects the token and "OverflowError" when int()
\* rejects an infinity.
IntOfFloat(token) ==
    CASE token = "0.0"   -> [exc |-> "none", value |-> 0]
      [] token = "3.0"   -> [exc |-> "none", value |-> 3]
      [] token = "3.7"   -> [exc |-> "none", value |-> 3]
      [] token = "128.0" -> [exc |-> "none", value |-> 128]
      [] token = "inf"   -> [exc |-> "OverflowError", value |-> 0]
      [] OTHER           -> [exc |-> "ValueError", value |-> 0]

RunningPrefix == "vllm:num_requests_running{"
SuccessPrefix == "vllm:request_success_total{"

\* Variant: the values of the lines of a counter are added up.
RECURSIVE ScanLines_sums(_, _, _, _)
ScanLines_sums(body, k, running, total) ==
    IF k > Len(body) THEN [exc |-> "none", running |-> running, total |-> total]
    ELSE IF body[k][1] = RunningPrefix
         THEN IF IntOfFloat(body[k][2]).exc # "none"
              THEN [exc |-> IntOfFloat(body[k][2]).exc, running |-> running, total |-> total]
              ELSE ScanLines_sums(body, k + 1, running + IntOfFloat(body[k][2]).value, total)
    ELSE IF body[k][1] = SuccessPrefix
         THEN IF IntOfFloat(body[k][2]).exc # "none"
              THEN [exc |-> IntOfFloat(body[k][2]).exc, running |-> running, total |-> total]
              ELSE ScanLines_sums(body, k + 1, running, total + IntOfFloat(body[k][2]).value)
    ELSE ScanLines_sums(body, k + 1, running, total)

\* The scan of lines 150-157 over the lines of a 200 body, from line k on.
\* A line is <<prefix, last token>>.  exc is "ValueError" as soon as a counter
\* line carries a token float() rejects.
RECURSIVE ScanLines(_, _, _, _)
ScanLines(body, k, running, total) ==
    IF k > Len(body) THEN [exc |-> "none", running |-> running, total |-> total]
    ELSE IF body[k][1] = RunningPrefix
         THEN IF IntOfFloat(body[k][2]).exc # "none"
              THEN [exc |-> IntOfFloat(body[k][2]).exc, running |-> running, total |-> total]
              ELSE ScanLines(body, k + 1, IntOfFloat(body[k][2]).value, total)
    ELSE IF body[k][1] = SuccessPrefix
         THEN IF IntOfFloat(body[k][2]).exc # "none"
              THEN [exc |-> IntOfFloat(body[k][2]).exc, running |-> running, total |-> total]
              ELSE ScanLines(body, k + 1, running, IntOfFloat(body[k][2]).value)
    ELSE ScanLines(body, k + 1, running, total)

\* A stats field is an int or the string '-'.
IntField(n) == [dash |-> FALSE, n |-> n]
Dash == [dash |-> TRUE, n |-> 0]

Stats(running, total) ==
    [raised |-> "none", current_processing |-> running, total_processed |-> total]
Raised(exc) ==
    [raised |-> exc, current_processing |-> Dash, total_processed |-> Dash]

\* Variant: a value that cannot be parsed blanks the total only and the
\* running count read so far is returned.
TryBlock_keeps_parsed(r) ==
    IF r.exc # "none" THEN Raised(r.exc)
    ELSE IF r.status_code = 200
         THEN IF ScanLines(r.body, 1, 0, 0).exc # "none"
              THEN Stats(IntField(ScanLines(r.body, 1, 0, 0).running), Dash)
              ELSE Stats(IntField(ScanLines(r.body, 1, 0, 0).running),
                         IntField(ScanLines(r.body, 1, 0, 0).total))
         ELSE Stats(Dash, Dash)

\* What the try block of get_worker_stats does with the outcome of
\* requests.get: r.exc is the exception requests.get raised ("none" when it
\* returned), r.status_code and r.body the response.
TryBlock(r) ==
    IF r.exc # "none" THEN Raised(r.exc)
    ELSE IF r.status_code = 200
         THEN IF ScanLines(r.body, 1, 0, 0).exc # "none"
              THEN Raised(ScanLines(r.body, 1, 0, 0).exc)
              ELSE Stats(IntField(ScanLines(r.body, 1, 0, 0).running),
                         IntField(ScanLines(r.body, 1, 0, 0).total))
         ELSE Stats(Dash, Dash)

get_worker_stats(r) ==
    IF TryBlock(r).raised = "none" THEN TryBlock(r)
    ELSE IF Catches(get_worker_stats_except, TryBlock(r).raised)
         THEN Stats(Dash, Dash)
         ELSE TryBlock(r)

\* The outcomes of requests.get the monitoring loop is run against.
Responses ==
    { [exc |-> "ConnectionError", status_code |-> 0, body |-> <<>>],
      [exc |-> "none", status_code |-> 200,
       body |-> << <<RunningPrefix, "3.0">>, <<SuccessPrefix, "128.0">> >>] }

\* ---- parse_gpu_groups -----------------------------------------------------
\* A Python str is a sequence of one-character strings.
Whitespace == {" ", "\t"}

\* str.split(sep) from position k on: cur is the token being read, acc the
\* tokens read so far.
RECURSIVE SplitFrom(_, _, _, _, _)
SplitFrom(str, sep, k, cur, acc) ==
    IF k > Len(str) THEN Append(acc, cur)
    ELSE IF str[k] = sep THEN SplitFrom(str, sep, k + 1, <<>>, Append(acc, cur))
    ELSE SplitFrom(str, sep, k + 1, Append(cur, str[k]), acc)

\* Variant: empty tokens are dropped, as str.split() without a separator does.
Split_drops_empty(str, sep) ==
    SelectSeq(SplitFrom(str, sep, 1, <<>>, <<>>), LAMBDA t : t # <<>>)

\* line 28: gpu_str.split(',')
Split(str, sep) == SplitFrom(str, sep, 1, <<>>, <<>>)

RECURSIVE LStrip(_)
LStrip(str) ==
    IF str # <<>> /\ Head(str) \in Whitespace THEN LStrip(Tail(str)) ELSE str

RECURSIVE RStrip(_)
RStrip(str) ==
    IF str # <<>> /\ str[Len(str)] \in Whitespace
    THEN RStrip(SubSeq(str, 1, Len(str) - 1))
    ELSE str

Strip(str) == RStrip(LStrip(str))

\* sep.join(list(str))
RECURSIVE JoinChars(_, _)
JoinChars(str, sep) ==
    IF Len(str) <= 1 THEN str
    ELSE <<Head(str), sep>> \o JoinChars(Tail(str), sep)

Contains(str, c) == \E k \in 1..Len(str) : str[k] = c

\* Variant: every token is passed through unexpanded.
ParseGroup_verbatim(group) == group

\* lines 31-37, for one token of the split
ParseGroup(group) ==
    IF Len(Strip(group)) > 1 /\ ~Contains(Strip(group), ",")
    THEN JoinChars(Strip(group), ",")
    ELSE Strip(group)

\* lines 23-38
parse_gpu_groups(gpu_str) ==
    [k \in 1..Len(Split(gpu_str, ",")) |-> ParseGroup(Split(gpu_str, ",")[k])]

\* ---- initial state --------------------------------------------------------
DigitChar(d) == <<"0", "1", "2", "3", "4", "5", "6", "7", "8", "9">>[d + 1]

\* The --gpus argument of n two-device groups, in the form of the default
\* '01,23,45,67'.
RECURSIVE GpuArg(_)
GpuArg(n) ==
    IF n = 0 THEN <<>>
    ELSE (IF n = 1 THEN <<>> ELSE GpuArg(n - 1) \o <<",">>)
         \o <<DigitChar(2 * n - 2), DigitChar(2 * n - 1)>>

\* The --gpus arguments the controller is run with: the default form for each
\* number of workers, an empty argument and one with a trailing comma.
GpuArgs ==
    {a \in {GpuArg(n) : n \in 1..MaxWorkers} \cup {<<>>, <<"0", ",">>} :
        Len(parse_gpu_groups(a)) <= MaxWorkers}

PlannedPorts == {NGINX_PORT} \cup {WorkerPort(k) : k \in 0..(MaxWorkers - 1)}

NoResp == [exc |-> "none", status_code |-> 0, body |-> <<>>]

\* The controller's own state when main() is entered.
InitController ==
    /\ i = 0
    /\ checked_ports = {}
    /\ procs = <<>>
    /\ RUNNING_PROCESSES = <<>>
    /\ worker_ports = <<>>
    /\ current_port = START_PORT
    /\ nginx_conf = NoConf
    /\ nginx_proc = 0
    /\ last_stats_time = 0
    /\ current_time = 0
    /\ now = Epoch
    /\ rows = <<>>
    /\ reports = {}
    /\ last_reports = {}
    /\ ci = 0
    /\ cleanup_runs = 0
    /\ interrupts = 0
    /\ exit_status = -1
    /\ exit_cause = "none"

Init ==
    /\ gpus_arg \in GpuArgs
    /\ GPU_GROUPS = parse_gpu_groups(gpus_arg)
    /\ port_arg = NGINX_PORT
    /\ resp = NoResp
    /\ stats = Stats(Dash, Dash)
    /\ nginx_installed \in BOOLEAN
    /\ ports_in_use \in {{}} \cup {{p} : p \in PlannedPorts}
    /\ pc = "check_nginx"
    /\ InitController

\* ---- leaving main() -------------------------------------------------------
\* The interpreter leaves main() with the given status and runs the atexit
\* handlers next.
LeaveMain(status, cause) ==
    /\ pc' = "atexit"
    /\ exit_status' = status
    /\ exit_cause' = cause
    /\ UNCHANGED <<ci, cleanup_runs>>

\* ---- check_requirements ---------------------------------------------------
CheckNginx ==
    /\ pc = "check_nginx"
    /\ IF ~nginx_installed
       THEN LeaveMain(1, "preflight")
       ELSE /\ pc' = "check_lb_port"
            /\ UNCHANGED exitVars
    /\ UNCHANGED <<envVars, checked_ports, i, procs, setupVars, loopVars, interrupts>>

CheckLbPort ==
    /\ pc = "check_lb_port"
    /\ IF is_port_in_use(NGINX_PORT)
       THEN LeaveMain(1, "preflight") /\ i' = i
       ELSE /\ pc' = "check_worker_port"
            /\ i' = 0
            /\ UNCHANGED exitVars
    /\ UNCHANGED <<envVars, checked_ports, procs, setupVars, loopVars, interrupts>>

\* Variant: the probed port is one past the worker's port.
CheckedPort_off(k) == START_PORT + k + 1

\* line 194
CheckedPort(k) == START_PORT + k

CheckWorkerPort ==
    /\ pc = "check_worker_port"
    /\ IF i < Len(GPU_GROUPS)
       THEN /\ checked_ports' = checked_ports \cup {CheckedPort(i)}
            /\ IF is_port_in_use(CheckedPort(i))
               THEN LeaveMain(1, "preflight") /\ i' = i
               ELSE /\ i' = i + 1
                    /\ pc' = pc
                    /\ UNCHANGED exitVars
       ELSE /\ pc' = "clean_logs"
            /\ i' = i
            /\ UNCHANGED <<checked_ports, exitVars>>
    /\ UNCHANGED <<envVars, procs, setupVars, loopVars, interrupts>>

check_requirements == CheckNginx \/ CheckLbPort \/ CheckWorkerPort

\* ---- main(): setup --------------------------------------------------------
NewProc(kind, port, gpus) ==
    [kind |-> kind, port |-> port, gpus |-> gpus, alive |-> TRUE,
     sigterm |-> 0, signo |-> 0, oserror |-> 0]

\* Variant: the port counter skips a port.
NextPort_skips(port) == port + 2

\* line 273
NextPort(port) == port + 1

\* lines 241-252
CleanLogs ==
    /\ pc = "clean_logs"
    /\ nginx_conf' = NoConf
    /\ current_port' = START_PORT
    /\ worker_ports' = <<>>
    /\ pc' = "popen"
    /\ UNCHANGED <<envVars, checked_ports, i, procs, RUNNING_PROCESSES, nginx_proc, loopVars,
                   exitVars, interrupts>>

\* lines 254-270: subprocess.Popen returns the handle of a new worker
SpawnWorker ==
    /\ pc = "popen"
    /\ Len(worker_ports) < Len(GPU_GROUPS)
    /\ procs' = Append(procs, NewProc("worker", current_port,
                                      GPU_GROUPS[Len(worker_ports) + 1]))
    /\ pc' = "register"
    /\ UNCHANGED <<envVars, checked_ports, i, setupVars, loopVars, exitVars, interrupts>>

\* lines 264-270: open() or subprocess.Popen raises OSError, which nothing catches
SpawnWorkerFails ==
    /\ pc = "popen"
    /\ Len(worker_ports) < Len(GPU_GROUPS)
    /\ LeaveMain(1, "spawn_error")
    /\ UNCHANGED <<envVars, checked_ports, i, procs, setupVars, loopVars, interrupts>>

\* lines 271-273
RegisterWorker ==
    /\ pc = "register"
    /\ RUNNING_PROCESSES' = Append(RUNNING_PROCESSES, Len(procs))
    /\ worker_ports' = Append(worker_ports, current_port)
    /\ current_port' = NextPort(current_port)
    /\ pc' = "popen"
    /\ UNCHANGED <<envVars, checked_ports, i, procs, nginx_conf, nginx_proc, loopVars, exitVars,
                   interrupts>>

\* lines 275-277, once the for loop is exhausted
GenerateConfig ==
    /\ pc = "popen"
    /\ Len(worker_ports) = Len(GPU_GROUPS)
    /\ nginx_conf' = generate_nginx_config(worker_ports)
    /\ pc' = "popen_nginx"
    /\ UNCHANGED <<envVars, checked_ports, i, procs, RUNNING_PROCESSES, worker_ports, current_port,
                   nginx_proc, loopVars, exitVars, interrupts>>

\* lines 279-286
SpawnProxy ==
    /\ pc = "popen_nginx"
    /\ procs' = Append(procs, NewProc("nginx", NGINX_PORT, <<>>))
    /\ nginx_proc' = Len(procs) + 1
    /\ pc' = "register_nginx"
    /\ UNCHANGED <<envVars, checked_ports, i, RUNNING_PROCESSES, worker_ports, current_port,
                   nginx_conf, loopVars, exitVars, interrupts>>

\* lines 279-286: open() or subprocess.Popen raises OSError
SpawnProxyFails ==
    /\ pc = "popen_nginx"
    /\ LeaveMain(1, "proxy_start_error")
    /\ UNCHANGED <<envVars, checked_ports, i, procs, setupVars, loopVars, interrupts>>

\* lines 287-294
RegisterProxy ==
    /\ pc = "register_nginx"
    /\ RUNNING_PROCESSES' = Append(RUNNING_PROCESSES, nginx_proc)
    /\ last_stats_time' = 0
    /\ pc' = "sleep"
    /\ UNCHANGED <<envVars, checked_ports, i, procs, worker_ports, current_port, nginx_conf,
                   nginx_proc, current_time, now, last_reports, rows, reports, exitVars, interrupts>>

\* ---- main(): monitoring loop ------------------------------------------------
\* lines 296-300: one tick, then the decision whether the stats are due
Sleep ==
    /\ pc = "sleep"
    /\ now < Epoch + MaxTicks
    /\ now' = now + 1
    /\ current_time' = now'
    /\ reports' = {}
    /\ last_reports' = reports
    /\ IF current_time' - last_stats_time >= STATS_INTERVAL
       THEN pc' = "poll" /\ rows' = <<>>
       ELSE pc' = "proxy_check" /\ rows' = rows
    /\ UNCHANGED <<envVars, checked_ports, i, procs, setupVars, last_stats_time, exitVars, interrupts>>

\* Variant: one failed scrape blanks the rows already built in this cycle.
PollWorker_shared_failure ==
    /\ pc = "poll"
    /\ Len(rows) < Len(worker_ports)
    /\ \E r \in Responses :
          IF get_worker_stats(r).current_processing.dash
          THEN rows' = [k \in 1..(Len(rows) + 1) |->
                           [port |-> worker_ports[k], stats |-> get_worker_stats(r)]]
          ELSE rows' = Append(rows, [port |-> worker_ports[Len(rows) + 1],
                                     stats |-> get_worker_stats(r)])
    /\ UNCHANGED <<envVars, checked_ports, pc, i, procs, setupVars, last_stats_time, current_time,
                   now, last_reports, reports, exitVars, interrupts>>

\* lines 166-168: one pass of the loop of print_stats_table.  An exception
\* that get_worker_stats lets through is not a KeyboardInterrupt, so line 331
\* does not catch it and it leaves main with a traceback.
PollWorker ==
    /\ pc = "poll"
    /\ Len(rows) < Len(worker_ports)
    /\ \E r \in Responses :
          IF get_worker_stats(r).raised = "none"
          THEN /\ rows' = Append(rows, [port |-> worker_ports[Len(rows) + 1],
                                        stats |-> get_worker_stats(r)])
               /\ UNCHANGED <<pc, exitVars>>
          ELSE /\ rows' = rows
               /\ LeaveMain(1, "uncaught")
    /\ UNCHANGED <<envVars, checked_ports, i, procs, setupVars, last_stats_time, current_time,
                   now, last_reports, reports, interrupts>>

\* Variant: the table is printed but the timer is left as it was.
RenderTable_no_reset ==
    /\ pc = "poll"
    /\ Len(rows) = Len(worker_ports)
    /\ last_stats_time' = last_stats_time
    /\ pc' = "proxy_check"
    /\ UNCHANGED <<envVars, checked_ports, i, procs, setupVars, current_time, now, last_reports, rows, reports,
                   exitVars, interrupts>>

\* lines 170-178 and 302: the table is printed and the timer reset
RenderTable ==
    /\ pc = "poll"
    /\ Len(rows) = Len(worker_ports)
    /\ last_stats_time' = current_time
    /\ pc' = "proxy_check"
    /\ UNCHANGED <<envVars, checked_ports, i, procs, setupVars, current_time, now, last_reports, rows, reports,
                   exitVars, interrupts>>

\* Variant: the proxy crash is reported without the break of line 317.
CheckProxy_no_break ==
    /\ pc = "proxy_check"
    /\ reports' = IF ~procs[nginx_proc].alive
                  THEN reports \cup {<<"nginx", 0>>}
                  ELSE reports
    /\ pc' = "worker_scan"
    /\ i' = 0
    /\ UNCHANGED <<envVars, checked_ports, procs, setupVars, last_stats_time, current_time, now, last_reports,
                   rows, exitVars, interrupts>>

\* lines 304-317
CheckProxy ==
    /\ pc = "proxy_check"
    /\ IF ~procs[nginx_proc].alive
       THEN /\ reports' = reports \cup {<<"nginx", 0>>}
            /\ LeaveMain(0, "proxy_died")
            /\ i' = i
       ELSE /\ pc' = "worker_scan"
            /\ i' = 0
            /\ UNCHANGED <<reports, exitVars>>
    /\ UNCHANGED <<envVars, checked_ports, procs, setupVars, last_stats_time, current_time, now, last_reports,
                   rows, interrupts>>

\* Variant: the break of the worker scan leaves the monitoring loop too.
ScanWorkerEndsLoop ==
    /\ pc = "worker_scan"
    /\ IF i < Len(RUNNING_PROCESSES) - 1
       THEN IF ~procs[RUNNING_PROCESSES[i + 1]].alive
            THEN /\ reports' = reports \cup {<<"worker", i>>}
                 /\ LeaveMain(0, "worker_died")
                 /\ i' = i
            ELSE /\ i' = i + 1
                 /\ pc' = pc
                 /\ UNCHANGED <<reports, exitVars>>
       ELSE /\ pc' = "sleep"
            /\ UNCHANGED <<i, reports, exitVars>>
    /\ UNCHANGED <<envVars, checked_ports, procs, setupVars, last_stats_time, current_time, now, last_reports,
                   rows, interrupts>>

\* Variant: the configuration is rendered again without the port of a worker
\* found exited.
ScanWorker_rerenders ==
    /\ pc = "worker_scan"
    /\ IF i < Len(RUNNING_PROCESSES) - 1
       THEN IF ~procs[RUNNING_PROCESSES[i + 1]].alive
            THEN /\ reports' = reports \cup {<<"worker", i>>}
                 /\ nginx_conf' = generate_nginx_config(
                                      SelectSeq(worker_ports, LAMBDA q : q # worker_ports[i + 1]))
                 /\ pc' = "sleep"
                 /\ i' = i
            ELSE /\ i' = i + 1
                 /\ pc' = pc
                 /\ UNCHANGED <<reports, nginx_conf>>
       ELSE /\ pc' = "sleep"
            /\ UNCHANGED <<i, reports, nginx_conf>>
    /\ UNCHANGED <<envVars, checked_ports, procs, RUNNING_PROCESSES, worker_ports, current_port,
                   nginx_proc, last_stats_time, current_time, now, last_reports, rows, exitVars,
                   interrupts>>

\* Variant: a worker found exited is launched again and its handle replaced.
ScanWorker_restarts ==
    /\ pc = "worker_scan"
    /\ IF i < Len(RUNNING_PROCESSES) - 1
       THEN IF ~procs[RUNNING_PROCESSES[i + 1]].alive
            THEN /\ reports' = reports \cup {<<"worker", i>>}
                 /\ procs' = Append(procs, NewProc("worker", worker_ports[i + 1],
                                                   GPU_GROUPS[i + 1]))
                 /\ RUNNING_PROCESSES' = [RUNNING_PROCESSES EXCEPT ![i + 1] = Len(procs) + 1]
                 /\ pc' = "sleep"
                 /\ i' = i
            ELSE /\ i' = i + 1
                 /\ pc' = pc
                 /\ UNCHANGED <<reports, procs, RUNNING_PROCESSES>>
       ELSE /\ pc' = "sleep"
            /\ UNCHANGED <<i, reports, procs, RUNNING_PROCESSES>>
    /\ UNCHANGED <<envVars, checked_ports, worker_ports, current_port, nginx_conf, nginx_proc,
                   last_stats_time, current_time, now, last_reports, rows, exitVars, interrupts>>

\* Variant: the scan has no break and goes on after a report.
ScanWorker_no_break ==
    /\ pc = "worker_scan"
    /\ IF i < Len(RUNNING_PROCESSES) - 1
       THEN /\ reports' = IF ~procs[RUNNING_PROCESSES[i + 1]].alive
                          THEN reports \cup {<<"worker", i>>}
                          ELSE reports
            /\ i' = i + 1
            /\ pc' = pc
       ELSE /\ pc' = "sleep"
            /\ UNCHANGED <<i, reports>>
    /\ UNCHANGED <<envVars, checked_ports, procs, setupVars, last_stats_time, current_time, now, last_reports,
                   rows, exitVars, interrupts>>

\* lines 320-329: one pass of the scan of RUNNING_PROCESSES[:-1]
ScanWorker ==
    /\ pc = "worker_scan"
    /\ IF i < Len(RUNNING_PROCESSES) - 1
       THEN IF ~procs[RUNNING_PROCESSES[i + 1]].alive
            THEN /\ reports' = reports \cup {<<"worker", i>>}
                 /\ pc' = "sleep"
                 /\ i' = i
            ELSE /\ i' = i + 1
                 /\ pc' = pc
                 /\ reports' = reports
       ELSE /\ pc' = "sleep"
            /\ UNCHANGED <<i, reports>>
    /\ UNCHANGED <<envVars, checked_ports, procs, setupVars, last_stats_time, current_time, now, last_reports,
                   rows, exitVars, interrupts>>

\* lines 331-332
Stopping ==
    /\ pc = "stopping"
    /\ LeaveMain(0, "interrupt")
    /\ UNCHANGED <<envVars, checked_ports, i, procs, setupVars, loopVars, interrupts>>

\* ---- atexit: cleanup_processes ----------------------------------------------
\* Variant: the handler is never registered.
atexit_unregistered == FALSE
\* line 141: cleanup_processes is registered when the module is loaded
atexit_registered == TRUE

\* Interpreter shutdown runs the registered handler.
AtExit ==
    /\ pc = "atexit"
    /\ IF atexit_registered
       THEN /\ cleanup_runs' = cleanup_runs + 1
            /\ ci' = 1
            /\ pc' = "cleanup_poll"
       ELSE /\ pc' = "exited"
            /\ UNCHANGED <<ci, cleanup_runs>>
    /\ UNCHANGED <<envVars, checked_ports, i, procs, setupVars, loopVars, interrupts,
                   exit_status, exit_cause>>

\* line 136: the signal number given to os.killpg
CleanupSignal == 15

\* Variant: the entry is signalled whether or not it has exited.
CleanupPoll_always_kill ==
    /\ pc = "cleanup_poll"
    /\ ci <= Len(RUNNING_PROCESSES)
    /\ pc' = "cleanup_kill"
    /\ ci' = ci
    /\ UNCHANGED <<envVars, checked_ports, i, procs, setupVars, loopVars, interrupts,
                   cleanup_runs, exit_status, exit_cause>>

\* lines 133-134: proc.poll() of the next registry entry
CleanupPoll ==
    /\ pc = "cleanup_poll"
    /\ ci <= Len(RUNNING_PROCESSES)
    /\ IF procs[RUNNING_PROCESSES[ci]].alive
       THEN pc' = "cleanup_kill" /\ ci' = ci
       ELSE pc' = pc /\ ci' = ci + 1
    /\ UNCHANGED <<envVars, checked_ports, i, procs, setupVars, loopVars, interrupts,
                   cleanup_runs, exit_status, exit_cause>>

\* lines 135-138: os.killpg(os.getpgid(proc.pid), 15).  When the process has
\* exited since the poll, the call either still reaches its (zombie) group or
\* raises OSError.
CleanupKill ==
    /\ pc = "cleanup_kill"
    /\ \E outcome \in {"sent", "OSError"} :
          /\ procs[RUNNING_PROCESSES[ci]].alive => outcome = "sent"
          /\ IF outcome = "sent"
             THEN /\ procs' = [procs EXCEPT ![RUNNING_PROCESSES[ci]].sigterm = @ + 1,
                                            ![RUNNING_PROCESSES[ci]].signo = CleanupSignal]
                  /\ pc' = "cleanup_poll"
                  /\ ci' = ci + 1
             ELSE /\ procs' = [procs EXCEPT ![RUNNING_PROCESSES[ci]].oserror = @ + 1]
                  /\ IF Catches(cleanup_except, "OSError")
                     THEN pc' = "cleanup_poll" /\ ci' = ci + 1
                     ELSE pc' = "exited" /\ ci' = ci
    /\ UNCHANGED <<envVars, checked_ports, i, setupVars, loopVars, interrupts,
                   cleanup_runs, exit_status, exit_cause>>

\* line 139: the registry is exhausted
CleanupDone ==
    /\ pc = "cleanup_poll"
    /\ ci > Len(RUNNING_PROCESSES)
    /\ pc' = "exited"
    /\ UNCHANGED <<envVars, checked_ports, i, procs, setupVars, loopVars, interrupts, exitVars>>

cleanup_processes == CleanupPoll \/ CleanupKill \/ CleanupDone

\* ---- environment ------------------------------------------------------------
\* A worker or Nginx exits on its own (a crash, or the effect of a signal).
ProcExit ==
    /\ pc # "exited"
    /\ \E p \in 1..Len(procs) :
          /\ procs[p].alive
          /\ procs' = [procs EXCEPT ![p].alive = FALSE]
    /\ UNCHANGED <<envVars, checked_ports, pc, i, setupVars, loopVars, exitVars, interrupts>>

\* Where a KeyboardInterrupt raised at position p is handled: inside
\* get_worker_stats (line 158), by main's handler (line 331), inside
\* cleanup_processes (line 137), or nowhere.
InterruptTarget(p) ==
    IF p = "poll" /\ Catches(get_worker_stats_except, "KeyboardInterrupt")
    THEN "poll"
    ELSE IF p \in LoopPcs /\ Catches(main_except, "KeyboardInterrupt")
    THEN "stopping"
    ELSE IF p = "cleanup_kill" /\ Catches(cleanup_except, "KeyboardInterrupt")
    THEN "cleanup_poll"
    ELSE IF p \in CleanupPcs
    THEN "exited"
    ELSE "atexit"

\* SIGINT is delivered while the controller is at pc.
Interrupt ==
    /\ interrupts < MaxInterrupts
    /\ pc \notin {"atexit", "exited"}
    /\ interrupts' = interrupts + 1
    /\ pc' = InterruptTarget(pc)
    /\ rows' = IF pc' = "poll" /\ Len(rows) < Len(worker_ports)
               THEN Append(rows, [port |-> worker_ports[Len(rows) + 1],
                                  stats |-> Stats(Dash, Dash)])
               ELSE rows
    /\ ci' = IF pc = "cleanup_kill" /\ pc' = "cleanup_poll" THEN ci + 1 ELSE ci
    /\ IF pc' = "atexit"
       THEN exit_status' = 130 /\ exit_cause' = "interrupt"
       ELSE UNCHANGED <<exit_status, exit_cause>>
    /\ UNCHANGED <<envVars, checked_ports, i, procs, setupVars, last_stats_time, current_time, now, last_reports,
                   reports, cleanup_runs>>

main ==
    \/ check_requirements
    \/ CleanLogs
    \/ SpawnWorker
    \/ SpawnWorkerFails
    \/ RegisterWorker
    \/ GenerateConfig
    \/ SpawnProxy
    \/ SpawnProxyFails
    \/ RegisterProxy
    \/ Sleep
    \/ PollWorker
    \/ RenderTable
    \/ CheckProxy
    \/ ScanWorker
    \/ Stopping

Next ==
    \/ main
    \/ AtExit
    \/ cleanup_processes
    \/ ProcExit
    \/ Interrupt

Spec == Init /\ [][Next]_vars

\* ---- get_worker_stats on its own -------------------------------------------
MaxLines == 2

OtherPrefix == "# HELP vllm:num_requests_running"
LinePrefixes == {RunningPrefix, SuccessPrefix, OtherPrefix}
LineTokens == {"3.7", "128.0", "inf", "abc"}
MetricsLines == {<<p, t>> : p \in LinePrefixes, t \in LineTokens}
MetricsBodies == UNION {[1..n -> MetricsLines] : n \in 0..MaxLines}

\* Every outcome of requests.get: an exception, or a response with a status
\* and a body.
AllResponses ==
    {[exc |-> e, status_code |-> 0, body |-> <<>>] : e \in {"ConnectionError", "Timeout"}}
    \cup {[exc |-> "none", status_code |-> c, body |-> b] :
              c \in {200, 404, 503}, b \in MetricsBodies}

InitStats ==
    /\ resp \in AllResponses
    /\ port_arg = NGINX_PORT
    /\ stats = Stats(Dash, Dash)
    /\ gpus_arg = <<>>
    /\ GPU_GROUPS = <<>>
    /\ nginx_installed = TRUE
    /\ ports_in_use = {}
    /\ pc = "get_worker_stats"
    /\ InitController

\* line 167: stats = get_worker_stats(port)
CallGetWorkerStats ==
    /\ pc = "get_worker_stats"
    /\ stats' = get_worker_stats(resp)
    /\ pc' = "returned"
    /\ UNCHANGED <<gpus_arg, port_arg, resp, GPU_GROUPS, nginx_installed, ports_in_use, i,
                   checked_ports, procs,
                   setupVars, loopVars, exitVars, interrupts>>

NextStats == CallGetWorkerStats

SpecStats == InitStats /\ [][NextStats]_vars

\* ==== claims =================================================================
NumWorkers == Len(GPU_GROUPS)
Registered == {RUNNING_PROCESSES[k] : k \in 1..Len(RUNNING_PROCESSES)}
AliveUnsignalled(p) == procs[p].alive /\ procs[p].sigterm = 0

\* C1: on every shutdown path every handle ever appended to RUNNING_PROCESSES
\* has been sent SIGTERM exactly once when the controller has exited, the
\* entries whose process had already exited included.
C1_EveryEntrySignalledOnce ==
    pc = "exited" => \A p \in Registered : procs[p].sigterm = 1

\* C2: cleanup_processes is entered exactly once per run: never before main()
\* is left, once when the interpreter shuts down, whatever the exit path
\* (preflight exit, spawn fault, interrupt, proxy death), and never again.
C2_CleanupRunsExactlyOnce ==
    /\ cleanup_runs = IF pc \in CleanupPcs \cup {"exited"} THEN 1 ELSE 0
    /\ pc = "exited" =>
          exit_cause \in {"preflight", "spawn_error", "proxy_start_error",
                          "interrupt", "proxy_died"}

C2_Witness ==
    /\ pc = "exited"
    /\ exit_cause = "spawn_error"
    /\ RUNNING_PROCESSES # <<>>
    /\ cleanup_runs = 1

\* C3: when Nginx is missing, the Nginx port is occupied or one of the planned
\* worker ports START_PORT..START_PORT+N-1 is occupied, no process is ever
\* spawned or registered and the run ends with a non-zero exit status; a
\* preflight exit has status 1.
PreflightFails ==
    \/ ~nginx_installed
    \/ NGINX_PORT \in ports_in_use
    \/ \E k \in 0..(NumWorkers - 1) : (START_PORT + k) \in ports_in_use

C3_PreflightAllOrNothing ==
    /\ PreflightFails =>
          /\ procs = <<>>
          /\ RUNNING_PROCESSES = <<>>
          /\ ~nginx_conf.rendered
          /\ pc \notin (SetupPcs \ {"check_nginx", "check_lb_port", "check_worker_port"})
          /\ pc \notin LoopPcs
          /\ pc = "exited" => exit_status # 0
    /\ exit_cause = "preflight" => PreflightFails /\ exit_status = 1

C3_Witness ==
    /\ pc = "exited"
    /\ exit_cause = "preflight"
    /\ nginx_installed
    /\ ports_in_use = {START_PORT + 1}
    /\ RUNNING_PROCESSES = <<>>

\* C4: while Nginx is alive and no SIGINT has arrived the monitoring loop is
\* still running once setup is complete, even with every worker exited; and
\* the loop is left only by the proxy check that finds Nginx exited or by the
\* step that delivers a SIGINT.
LoopRunsWhileProxyAlive ==
    (/\ nginx_proc # 0
     /\ nginx_proc \in Registered
     /\ procs[nginx_proc].alive
     /\ interrupts = 0) => pc \in LoopPcs

LoopLeftOnlyByProxyDeathOrInterrupt ==
    (pc \in LoopPcs /\ pc' \notin LoopPcs) =>
        \/ /\ pc = "proxy_check"
           /\ ~procs[nginx_proc].alive
           /\ pc' = "atexit"
           /\ exit_cause' = "proxy_died"
        \/ /\ interrupts' = interrupts + 1
           /\ pc' = "stopping"

C4_LoopExitConditions ==
    [](LoopRunsWhileProxyAlive) /\ [][LoopLeftOnlyByProxyDeathOrInterrupt]_vars

C4_Witness ==
    /\ pc = "worker_scan"
    /\ now >= Epoch + 2
    /\ NumWorkers >= 2
    /\ procs[nginx_proc].alive
    /\ \A k \in 1..NumWorkers : ~procs[RUNNING_PROCESSES[k]].alive
    /\ interrupts = 0

\* C5: when the loop was ended by the proxy check finding Nginx exited, the
\* crash was reported and, when the controller has exited, cleanup has sent
\* SIGTERM to every worker that is still alive.
C5_ProxyDeathThenCleanupSignalsWorkers ==
    (pc = "exited" /\ exit_cause = "proxy_died") =>
        /\ <<"nginx", 0>> \in reports
        /\ \A k \in 1..NumWorkers : ~AliveUnsignalled(RUNNING_PROCESSES[k])

\* C6: the step that delivers a SIGINT inside the monitoring loop goes
\* straight to main's handler: no row is added to the stats table (the poll in
\* progress is not turned into a '-' row), nothing is reported, no timer is
\* reset; from the handler the only way on is interpreter shutdown, and from
\* there cleanup_processes.
InterruptEndsLoop ==
    /\ (pc \in LoopPcs /\ interrupts' = interrupts + 1) =>
          /\ pc' = "stopping"
          /\ UNCHANGED <<rows, reports, last_stats_time, i>>
    /\ pc = "stopping" =>
          /\ pc' \in {"stopping", "atexit"}
          /\ UNCHANGED <<rows, reports, last_stats_time, i>>
    /\ (pc = "atexit" /\ pc' # pc) => pc' = "cleanup_poll"

C6_InterruptEndsLoop == [][InterruptEndsLoop]_vars

C6_Witness ==
    /\ pc = "stopping"
    /\ Len(rows) > 0
    /\ Len(rows) < Len(worker_ports)

\* C7: once cleanup_processes has started it runs to the end of the registry
\* whatever SIGINT arrives, so when the controller has exited every entry has
\* been examined and no registered process is alive without having been sent
\* SIGTERM.
C7_CleanupNotCancellable ==
    pc = "exited" =>
        /\ ci > Len(RUNNING_PROCESSES)
        /\ \A p \in Registered : ~AliveUnsignalled(p)

\* C8: whenever the Nginx configuration has been rendered or Nginx has been
\* spawned, the registry already starts with the N worker handles, and the
\* configuration's upstream list is the complete list of worker ports, one
\* 127.0.0.1:PORT entry per worker in order.
C8_ProxyAfterAllWorkers ==
    (nginx_conf.rendered \/ nginx_proc # 0) =>
        /\ Len(RUNNING_PROCESSES) >= NumWorkers
        /\ \A k \in 1..NumWorkers : procs[RUNNING_PROCESSES[k]].kind = "worker"
        /\ Len(nginx_conf.upstream) = NumWorkers
        /\ \A k \in 1..NumWorkers :
              nginx_conf.upstream[k] = <<"127.0.0.1", procs[RUNNING_PROCESSES[k]].port>>

C8_Witness ==
    /\ nginx_conf.rendered
    /\ nginx_proc = 0
    /\ NumWorkers >= 2
    /\ pc = "popen_nginx"

\* C9: once setup is complete the registry holds exactly N+1 handles: entry i
\* (from 0) is the worker of GPU group i listening on START_PORT+i, which is
\* also worker_ports[i], and the last entry is Nginx.
SetupComplete ==
    \/ pc \in LoopPcs \cup {"stopping"}
    \/ exit_cause = "proxy_died"
    \/ exit_cause = "interrupt" /\ exit_status = 0

C9_RegistryLayout ==
    SetupComplete =>
        /\ Len(RUNNING_PROCESSES) = NumWorkers + 1
        /\ Len(worker_ports) = NumWorkers
        /\ \A k \in 1..NumWorkers :
              /\ procs[RUNNING_PROCESSES[k]].kind = "worker"
              /\ procs[RUNNING_PROCESSES[k]].port = START_PORT + (k - 1)
              /\ procs[RUNNING_PROCESSES[k]].gpus = GPU_GROUPS[k]
              /\ worker_ports[k] = START_PORT + (k - 1)
        /\ RUNNING_PROCESSES[NumWorkers + 1] = nginx_proc
        /\ procs[nginx_proc].kind = "nginx"
        /\ \A k, m \in 1..Len(RUNNING_PROCESSES) :
              RUNNING_PROCESSES[k] = RUNNING_PROCESSES[m] => k = m

C9_Witness ==
    /\ pc = "worker_scan"
    /\ i = 1
    /\ NumWorkers >= 2
    /\ Len(RUNNING_PROCESSES) = NumWorkers + 1

\* C10: when spawning a worker failed, no later worker and no Nginx was
\* spawned, every worker spawned before it is in the registry, and when the
\* controller has exited cleanup has sent SIGTERM to each of them that is
\* still alive.
C10_SpawnFailureAborts ==
    exit_cause = "spawn_error" =>
        /\ nginx_proc = 0
        /\ ~nginx_conf.rendered
        /\ Len(procs) < NumWorkers
        /\ Len(RUNNING_PROCESSES) = Len(procs)
        /\ \A p \in 1..Len(procs) : p \in Registered
        /\ pc = "exited" => \A p \in Registered : ~AliveUnsignalled(p)

\* ---- parse_gpu_groups on its own --------------------------------------------
MaxGpuLen == 4

GpuChars == {"0", "1", " ", ","}
ExampleArgs ==
    { <<"0", "1", ",", "2", "3", ",", "4", "5", ",", "6", "7">>,
      <<"0", ",", "1", ",", "2", ",", "3">> }

\* Every --gpus argument of at most MaxGpuLen characters, and the two of the
\* docstring.
AllGpuArgs == UNION {[1..n -> GpuChars] : n \in 0..MaxGpuLen} \cup ExampleArgs

InitParse ==
    /\ gpus_arg \in AllGpuArgs
    /\ GPU_GROUPS = <<>>
    /\ port_arg = NGINX_PORT
    /\ resp = NoResp
    /\ stats = Stats(Dash, Dash)
    /\ nginx_installed = TRUE
    /\ ports_in_use = {}
    /\ pc = "import"
    /\ InitController

\* line 109: GPU_GROUPS = parse_gpu_groups(ARGS.gpus)
ParseArgs ==
    /\ pc = "import"
    /\ GPU_GROUPS' = parse_gpu_groups(gpus_arg)
    /\ pc' = "parsed"
    /\ UNCHANGED <<gpus_arg, port_arg, resp, stats, nginx_installed, ports_in_use, i,
                   checked_ports, procs, setupVars, loopVars, exitVars, interrupts>>

NextParse == ParseArgs

SpecParse == InitParse /\ [][NextParse]_vars

\* ---- generate_nginx_config on its own ---------------------------------------
MaxPortList == 3

ConfPorts == {START_PORT, START_PORT + 1, NGINX_PORT}
ListenPorts == {NGINX_PORT, START_PORT, 9000}

\* Any list of at most MaxPortList worker ports (repetitions included) and
\* any --port.
InitConf ==
    /\ worker_ports \in UNION {[1..n -> ConfPorts] : n \in 0..MaxPortList}
    /\ port_arg \in ListenPorts
    /\ gpus_arg = <<>>
    /\ GPU_GROUPS = <<>>
    /\ resp = NoResp
    /\ stats = Stats(Dash, Dash)
    /\ nginx_installed = TRUE
    /\ ports_in_use = {}
    /\ pc = "generate_nginx_config"
    /\ i = 0
    /\ checked_ports = {}
    /\ procs = <<>>
    /\ RUNNING_PROCESSES = <<>>
    /\ current_port = START_PORT
    /\ nginx_conf = NoConf
    /\ nginx_proc = 0
    /\ last_stats_time = 0
    /\ current_time = 0
    /\ now = Epoch
    /\ rows = <<>>
    /\ reports = {}
    /\ last_reports = {}
    /\ ci = 0
    /\ cleanup_runs = 0
    /\ interrupts = 0
    /\ exit_status = -1
    /\ exit_cause = "none"

\* line 276 with NGINX_PORT = ARGS.port (line 105)
CallGenerateConfig ==
    /\ pc = "generate_nginx_config"
    /\ nginx_conf' = RenderConfig(worker_ports, port_arg)
    /\ pc' = "rendered"
    /\ UNCHANGED <<envVars, i, checked_ports, procs, RUNNING_PROCESSES, worker_ports,
                   current_port, nginx_proc, loopVars, exitVars, interrupts>>

NextConf == CallGenerateConfig

SpecConf == InitConf /\ [][NextConf]_vars

\* ---- claims about get_worker_stats (under SpecStats) ------------------------
CounterPrefixes == {RunningPrefix, SuccessPrefix}
UnparsableLine(line) ==
    line[1] \in CounterPrefixes /\ line[2] \notin {"0.0", "3.0", "3.7", "128.0"}
HasUnparsable(body) == \E k \in 1..Len(body) : UnparsableLine(body[k])
LinesOf(body, prefix) == {k \in 1..Len(body) : body[k][1] = prefix}
LastOf(S) == CHOOSE k \in S : \A m \in S : m <= k
Returned == pc = "returned"

\* C11: for a transport error, a timeout, a status other than 200 or a body
\* with a counter line whose value cannot be parsed, get_worker_stats raises
\* nothing and returns '-' for both fields.
C11_PollNeverRaises ==
    (Returned /\ (resp.exc # "none" \/ resp.status_code # 200 \/ HasUnparsable(resp.body)))
        => /\ stats.raised = "none"
           /\ stats.current_processing = Dash
           /\ stats.total_processed = Dash

C11_Witness ==
    /\ Returned
    /\ resp.exc = "none"
    /\ resp.status_code = 200
    /\ Len(resp.body) = 2
    /\ resp.body[1] = <<RunningPrefix, "3.7">>
    /\ resp.body[2] = <<SuccessPrefix, "abc">>
    /\ stats = Stats(Dash, Dash)

MixedBody(r) ==
    /\ r.exc = "none"
    /\ r.status_code = 200
    /\ \E k, m \in 1..Len(r.body) :
          /\ r.body[k][1] \in CounterPrefixes
          /\ ~UnparsableLine(r.body[k])
          /\ r.body[m][1] \in CounterPrefixes \ {r.body[k][1]}
          /\ UnparsableLine(r.body[m])

\* C25: the two fields get_worker_stats returns are both '-' or both integers;
\* for a 200 body with one well-formed counter line and one counter line whose
\* value cannot be parsed both are '-', the parsed value being dropped.
C25_FieldsNeverMixed ==
    Returned =>
        /\ stats.current_processing.dash = stats.total_processed.dash
        /\ MixedBody(resp) => (stats.current_processing.dash /\ stats.total_processed.dash)

C25_Witness ==
    /\ Returned
    /\ resp.exc = "none"
    /\ resp.status_code = 200
    /\ resp.body = << <<RunningPrefix, "128.0">>, <<SuccessPrefix, "inf">> >>
    /\ stats.current_processing = Dash
    /\ stats.total_processed = Dash

\* The integer a well-formed token stands for, and the field of a counter.
TokenValue(t) == CASE t = "0.0" -> 0 [] t = "3.0" -> 3 [] t = "3.7" -> 3 [] OTHER -> 128
FieldOf(prefix) ==
    IF prefix = RunningPrefix THEN stats.current_processing ELSE stats.total_processed
Repeated(prefix) ==
    /\ Returned
    /\ resp.exc = "none"
    /\ resp.status_code = 200
    /\ Cardinality(LinesOf(resp.body, prefix)) >= 2
    /\ ~UnparsableLine(resp.body[LastOf(LinesOf(resp.body, prefix))])

\* C26 as stated: when a 200 body has several lines of one counter, the field
\* is the value of the last of them, whatever the earlier lines are.
C26_LastLineWins ==
    \A prefix \in CounterPrefixes :
        Repeated(prefix) =>
            FieldOf(prefix) =
                IntField(TokenValue(resp.body[LastOf(LinesOf(resp.body, prefix))][2]))

\* C26 (amended): when a 200 body has several lines of one counter and the
\* value of every counter line parses, the field is the value of the last of
\* them, not their sum and not the first; a counter line whose value does not
\* parse, an earlier one included, makes both fields '-'.
C26_LastParsedLineWins ==
    \A prefix \in CounterPrefixes :
        Repeated(prefix) =>
            IF HasUnparsable(resp.body)
            THEN stats = Stats(Dash, Dash)
            ELSE FieldOf(prefix) =
                     IntField(TokenValue(resp.body[LastOf(LinesOf(resp.body, prefix))][2]))

C26_Witness ==
    /\ Returned
    /\ resp.exc = "none"
    /\ resp.status_code = 200
    /\ resp.body = << <<RunningPrefix, "3.7">>, <<RunningPrefix, "128.0">> >>
    /\ stats = Stats(IntField(128), IntField(0))

\* ---- claims about the placements (under Spec) -------------------------------
WorkerHandles == {p \in 1..Len(procs) : procs[p].kind = "worker"}
LaunchedPorts == {procs[p].port : p \in WorkerHandles}
UpstreamPorts == {nginx_conf.upstream[k][2] : k \in 1..Len(nginx_conf.upstream)}
PastPreflight == pc \in (SetupPcs \ {"check_nginx", "check_lb_port", "check_worker_port"})
                    \cup LoopPcs \cup {"stopping"}

\* C13: the k-th worker is launched on START_PORT + k (from 0), so the ports
\* have no gap and no duplicate; once the workers are spawned their number is
\* the number of parsed GPU groups; and the ports probed by the preflight are
\* exactly the ports the workers are launched on and exactly the list given
\* to generate_nginx_config.
C13_PortsContiguousAndConsistent ==
    /\ \A k \in 1..Len(worker_ports) : worker_ports[k] = START_PORT + (k - 1)
    /\ \A p \in WorkerHandles : procs[p].port = START_PORT + (p - 1)
    /\ LaunchedPorts \subseteq checked_ports
    /\ PastPreflight =>
          checked_ports = {START_PORT + k : k \in 0..(NumWorkers - 1)}
    /\ nginx_conf.rendered =>
          /\ Cardinality(WorkerHandles) = NumWorkers
          /\ Len(worker_ports) = NumWorkers
          /\ LaunchedPorts = checked_ports
          /\ UpstreamPorts = checked_ports
          /\ \A k \in 1..NumWorkers : nginx_conf.upstream[k][2] = worker_ports[k]

C13_Witness ==
    /\ nginx_conf.rendered
    /\ NumWorkers >= 2
    /\ checked_ports = {START_PORT, START_PORT + 1}
    /\ LaunchedPorts = checked_ports

\* ---- claims about parse_gpu_groups (under SpecParse) ------------------------
Parsed == pc = "parsed"
CommaPositions(str) == {j \in 1..Len(str) : str[j] = ","}
NumTokens(str) == Cardinality(CommaPositions(str)) + 1

\* Position of the k-th comma of str; 0 for k = 0 and Len(str) + 1 past the last.
CommaAt(str, k) ==
    IF k = 0 THEN 0
    ELSE IF k > Cardinality(CommaPositions(str)) THEN Len(str) + 1
    ELSE CHOOSE j \in CommaPositions(str) :
            Cardinality({m \in CommaPositions(str) : m <= j}) = k

\* The k-th comma-separated token of str.
TokenOf(str, k) == SubSeq(str, CommaAt(str, k - 1) + 1, CommaAt(str, k) - 1)

\* out is the characters of t with a comma between each two.
IsInterleaved(out, t) ==
    /\ Len(out) = 2 * Len(t) - 1
    /\ \A j \in 1..Len(t) : out[2 * j - 1] = t[j]
    /\ \A j \in 1..(Len(t) - 1) : out[2 * j] = ","

\* t without its leading and trailing blanks.
NonBlank(t) == {j \in 1..Len(t) : t[j] \notin {" ", "\t"}}
TrimOf(t) ==
    IF NonBlank(t) = {} THEN <<>>
    ELSE SubSeq(t, CHOOSE j \in NonBlank(t) : \A m \in NonBlank(t) : j <= m,
                   CHOOSE j \in NonBlank(t) : \A m \in NonBlank(t) : m <= j)

Str0123 == << <<"0">>, <<"1">>, <<"2">>, <<"3">> >>
Str01234567 ==
    << <<"0", ",", "1">>, <<"2", ",", "3">>, <<"4", ",", "5">>, <<"6", ",", "7">> >>

\* C14 as stated: one group per comma-separated token, in order; a token
\* longer than one character becomes its characters joined by commas, every
\* other token is passed through unchanged.
C14_TokensExpandedUnchanged ==
    Parsed =>
        /\ Len(GPU_GROUPS) = NumTokens(gpus_arg)
        /\ \A k \in 1..Len(GPU_GROUPS) :
              IF Len(TokenOf(gpus_arg, k)) > 1
              THEN IsInterleaved(GPU_GROUPS[k], TokenOf(gpus_arg, k))
              ELSE GPU_GROUPS[k] = TokenOf(gpus_arg, k)

\* C14 amended: one group per comma-separated token, in order; each token is
\* first stripped of leading and trailing whitespace; a stripped token longer
\* than one character becomes its characters joined by commas, every other
\* stripped token is the group; '01,23,45,67' gives 0,1 / 2,3 / 4,5 / 6,7 and
\* '0,1,2,3' gives four single-device groups.
C14_TokensStrippedThenExpanded ==
    Parsed =>
        /\ Len(GPU_GROUPS) = NumTokens(gpus_arg)
        /\ \A k \in 1..Len(GPU_GROUPS) :
              IF Len(TrimOf(TokenOf(gpus_arg, k))) > 1
              THEN IsInterleaved(GPU_GROUPS[k], TrimOf(TokenOf(gpus_arg, k)))
              ELSE GPU_GROUPS[k] = TrimOf(TokenOf(gpus_arg, k))
        /\ gpus_arg = <<"0", "1", ",", "2", "3", ",", "4", "5", ",", "6", "7">>
              => GPU_GROUPS = Str01234567
        /\ gpus_arg = <<"0", ",", "1", ",", "2", ",", "3">> => GPU_GROUPS = Str0123

C14_Witness ==
    /\ Parsed
    /\ gpus_arg = <<"0", "1", ",", "2", "3", ",", "4", "5", ",", "6", "7">>
    /\ Len(GPU_GROUPS) = 4
    /\ GPU_GROUPS[4] = <<"6", ",", "7">>

\* One group per token, at least one group, no comma inside a token.
OneGroupPerToken ==
    /\ Len(GPU_GROUPS) = NumTokens(gpus_arg)
    /\ Len(GPU_GROUPS) >= 1
    /\ \A k \in 1..NumTokens(gpus_arg) : ~Contains(TokenOf(gpus_arg, k), ",")

\* C27 as stated: one group per token, so at least one; no token holds a
\* comma; a group of several devices comes only from a token of several
\* characters, and every token of several characters is split per character,
\* '10' giving '1,0'.
C27_MultiCharTokenSplit ==
    Parsed =>
        /\ OneGroupPerToken
        /\ \A k \in 1..Len(GPU_GROUPS) :
              /\ Len(TokenOf(gpus_arg, k)) > 1
                    => IsInterleaved(GPU_GROUPS[k], TokenOf(gpus_arg, k))
              /\ Contains(GPU_GROUPS[k], ",") => Len(TokenOf(gpus_arg, k)) > 1
        /\ gpus_arg = <<"1", "0">> => GPU_GROUPS = << <<"1", ",", "0">> >>

\* C27 (amended): one group per token, so at least one; no token holds a
\* comma; a group of several devices comes only from a token that has several
\* characters left once its leading and trailing whitespace is stripped, and
\* every such token is split per character of its stripped form, '10' giving
\* '1,0'; a token of several characters that strips to one or none is not
\* split.
C27_StrippedMultiCharTokenSplit ==
    Parsed =>
        /\ OneGroupPerToken
        /\ \A k \in 1..Len(GPU_GROUPS) :
              /\ Len(TrimOf(TokenOf(gpus_arg, k))) > 1
                    => IsInterleaved(GPU_GROUPS[k], TrimOf(TokenOf(gpus_arg, k)))
              /\ Contains(GPU_GROUPS[k], ",") => Len(TrimOf(TokenOf(gpus_arg, k))) > 1
              /\ Len(TrimOf(TokenOf(gpus_arg, k))) <= 1
                    => GPU_GROUPS[k] = TrimOf(TokenOf(gpus_arg, k))
        /\ gpus_arg = <<"1", "0">> => GPU_GROUPS = << <<"1", ",", "0">> >>

C27_Witness ==
    /\ Parsed
    /\ gpus_arg = <<"1", "0">>
    /\ GPU_GROUPS = << <<"1", ",", "0">> >>

\* C15: when a group of the --gpus argument is empty (an empty argument, a
\* trailing comma, two adjacent commas) nothing is launched, so no worker is
\* ever spawned with an empty CUDA_VISIBLE_DEVICES.
C15_EmptyGroupRejected ==
    /\ \A p \in WorkerHandles : procs[p].gpus # <<>>
    /\ (\E k \in 1..Len(GPU_GROUPS) : GPU_GROUPS[k] = <<>>) => procs = <<>>

\* ---- claims about generate_nginx_config (under SpecConf) --------------------
\* C16: for any list of worker ports and any listen port the rendered
\* upstream block has exactly one 127.0.0.1:PORT entry per element of the
\* list, in the order of the list, and the server listens on the given port.
C16_ConfigListsEveryPort ==
    pc = "rendered" =>
        /\ nginx_conf.rendered
        /\ Len(nginx_conf.upstream) = Len(worker_ports)
        /\ \A k \in 1..Len(worker_ports) :
              /\ nginx_conf.upstream[k][1] = "127.0.0.1"
              /\ nginx_conf.upstream[k][2] = worker_ports[k]
        /\ nginx_conf.listen = port_arg

C16_Witness ==
    /\ pc = "rendered"
    /\ worker_ports = <<START_PORT, START_PORT + 1>>
    /\ port_arg = 9000
    /\ nginx_conf.listen = 9000
    /\ Len(nginx_conf.upstream) = 2

\* ---- claims about cleanup_processes and the loop (under Spec) ---------------
EntryAt(k) == procs[RUNNING_PROCESSES[k]]

\* What a step of cleanup_processes does: a signal goes only to the entry
\* under examination, found alive by the poll, and is one SIGTERM; an entry
\* found exited is passed over with nothing sent; the position only ever
\* moves to the next entry.
CleanupStep ==
    /\ \A p \in 1..Len(procs) :
          procs'[p].sigterm # procs[p].sigterm =>
              /\ pc = "cleanup_kill"
              /\ p = RUNNING_PROCESSES[ci]
              /\ procs'[p].sigterm = procs[p].sigterm + 1
              /\ procs'[p].signo = 15
              /\ ci' = ci + 1
    /\ (pc = "cleanup_poll" /\ pc' = "cleanup_kill") => (EntryAt(ci).alive /\ ci' = ci)
    /\ (pc = "cleanup_poll" /\ ci' # ci) =>
          /\ ~EntryAt(ci).alive
          /\ ci' = ci + 1
          /\ procs' = procs
    /\ (pc \in CleanupPcs /\ ci' # ci) => ci' = ci + 1

\* Where cleanup_processes stands: the entries before the position have each
\* been sent one SIGTERM or were found exited, the others nothing; nothing
\* but SIGTERM is ever sent; and cleanup never has to wait for a process.
CleanupProgress ==
    /\ \A p \in 1..Len(procs) : procs[p].sigterm <= 1 /\ procs[p].signo \in {0, 15}
    /\ pc \in CleanupPcs \cup {"exited"} =>
          \A k \in 1..Len(RUNNING_PROCESSES) :
              /\ k >= ci => EntryAt(k).sigterm = 0
              /\ (k < ci /\ EntryAt(k).sigterm = 0) => ~EntryAt(k).alive
    /\ pc \in CleanupPcs => ENABLED cleanup_processes

\* C17: cleanup walks the registry in insertion order; an entry alive at its
\* poll is sent one SIGTERM (signal 15) and nothing else, an entry found exited
\* is sent nothing; no other signal is ever sent and cleanup never waits, so a
\* signalled process may still be alive when the controller has exited.
C17_CleanupSignalsLiveEntriesOnly == []CleanupProgress /\ [][CleanupStep]_vars

C17_Witness ==
    /\ pc = "exited"
    /\ ci > Len(RUNNING_PROCESSES)
    /\ Len(RUNNING_PROCESSES) >= 2
    /\ EntryAt(1).sigterm = 0
    /\ ~EntryAt(1).alive
    /\ EntryAt(2).sigterm = 1
    /\ EntryAt(2).alive

\* C18: when the entry under examination has exited between its poll and the
\* killpg and the call raises OSError, the error is swallowed: cleanup moves on
\* to the next entry and is still running.
OSErrorIgnored ==
    (/\ pc = "cleanup_kill"
     /\ \E p \in 1..Len(procs) : procs'[p].oserror # procs[p].oserror) =>
        /\ ~EntryAt(ci).alive
        /\ pc' = "cleanup_poll"
        /\ ci' = ci + 1
        /\ UNCHANGED <<exit_status, exit_cause, cleanup_runs>>

C18_SignalErrorIgnored == [][OSErrorIgnored]_vars

C18_Witness ==
    /\ pc = "exited"
    /\ ci > Len(RUNNING_PROCESSES)
    /\ Len(RUNNING_PROCESSES) >= 2
    /\ EntryAt(1).oserror = 1
    /\ EntryAt(1).sigterm = 0
    /\ EntryAt(2).sigterm = 1

WorkerReports(rs) == {r \in rs : r[1] = "worker"}
WorkerAt(k) == procs[RUNNING_PROCESSES[k + 1]]

\* At most one worker is reported per iteration, and it has exited.
OneExitedWorkerReported ==
    /\ Cardinality(WorkerReports(reports)) <= 1
    /\ \A r \in WorkerReports(reports) : ~WorkerAt(r[2]).alive

\* C19 as stated: the reported worker is the exited worker with the lowest
\* index, and an iteration that ends with the proxy alive reports again the
\* worker the iteration before reported.
C19_LowestExitedWorkerReportedAgain ==
    /\ OneExitedWorkerReported
    /\ \A r \in WorkerReports(reports) :
          \A j \in 0..(r[2] - 1) : WorkerAt(j).alive
    /\ pc = "sleep" => WorkerReports(last_reports) \subseteq reports

\* What a step of the worker scan does: it polls the workers in placement
\* order, passes a worker only when its poll finds it alive, and at the first
\* worker found exited reports it and stops the scan of this iteration, the
\* loop going back to its sleep.
ScanStep ==
    /\ (pc = "worker_scan" /\ i' # i) =>
          /\ i' = i + 1
          /\ WorkerAt(i).alive
          /\ reports' = reports
          /\ pc' = "worker_scan"
    /\ (pc = "worker_scan" /\ reports' # reports) =>
          /\ reports = {}
          /\ reports' = {<<"worker", i>>}
          /\ ~WorkerAt(i).alive
          /\ pc' = "sleep"
    /\ (pc # "worker_scan" /\ pc' = "worker_scan") => (i' = 0 /\ reports' = {})

\* An iteration that ends with the proxy alive reports a worker again when the
\* iteration before reported one: the same worker, or one of lower index.
ReportedAgain ==
    pc = "sleep" =>
        \A r \in WorkerReports(last_reports) :
            \E q \in WorkerReports(reports) : q[2] <= r[2]

\* C19 (amended): in an iteration in which the proxy is alive the scan reports
\* at most one worker, the first in placement order that its poll finds exited,
\* and stops; the loop keeps running, and every later iteration reports that
\* worker again unless a worker of lower index has exited since, which is then
\* the one reported.
C19_FirstExitedWorkerReported ==
    [](OneExitedWorkerReported /\ ReportedAgain) /\ [][ScanStep]_vars

\* Worker 1 was reported, worker 0 exited later and is now the one reported.
C19_Witness ==
    /\ pc = "sleep"
    /\ last_reports = {<<"worker", 1>>}
    /\ reports = {<<"worker", 0>>}

\* The order of the steps of one iteration, read off the moves of the
\* controller inside the loop.
LoopOrder ==
    /\ (pc = "sleep" /\ pc' \in LoopPcs \ {"sleep"}) =>
          pc' = IF now' - last_stats_time >= STATS_INTERVAL THEN "poll" ELSE "proxy_check"
    /\ (pc = "poll" /\ pc' \in LoopPcs \ {"poll"}) => pc' = "proxy_check"
    /\ (pc = "proxy_check" /\ pc' \in LoopPcs \ {"proxy_check"}) =>
          (pc' = "worker_scan" /\ procs[nginx_proc].alive)
    /\ (pc = "worker_scan" /\ pc' \in LoopPcs \ {"worker_scan"}) => pc' = "sleep"
    /\ (pc # "worker_scan" /\ pc' = "worker_scan") => pc = "proxy_check"
    /\ (pc # "proxy_check" /\ pc' = "proxy_check") => pc \in {"sleep", "poll"}
    /\ (pc # "poll" /\ pc' = "poll") => pc = "sleep"

\* A reported proxy crash is the only report of its iteration and ends the loop.
OnlyProxyReported ==
    <<"nginx", 0>> \in reports =>
        /\ reports = {<<"nginx", 0>>}
        /\ pc \notin LoopPcs
        /\ exit_cause = "proxy_died"

\* C20: an iteration runs sleep, stats refresh when due, proxy liveness check,
\* worker scan, in this order; a proxy check that finds the proxy exited leaves
\* the loop without the worker scan, so when the proxy and a worker have both
\* exited only the proxy crash is reported.
C20_IterationOrderProxyFirst == []OnlyProxyReported /\ [][LoopOrder]_vars

\* The iteration before reported worker 0 exited; this one reports the proxy only.
C20_Witness ==
    /\ exit_cause = "proxy_died"
    /\ last_reports = {<<"worker", 0>>}
    /\ reports = {<<"nginx", 0>>}
    /\ ~WorkerAt(0).alive

\* ---- claims about the stats refresh (under Spec) ----------------------------
Refreshed == last_stats_time = current_time

\* Inside an iteration: the table is being built only when the refresh is due,
\* and past the refresh either it was done in this iteration or it was not due;
\* the first iteration refreshes.
RefreshWhenDue ==
    /\ pc = "poll" => current_time - last_stats_time >= 5
    /\ pc \in {"proxy_check", "worker_scan"} =>
          (Refreshed \/ current_time - last_stats_time < 5)
    /\ (pc \in {"proxy_check", "worker_scan"} /\ current_time = Epoch + 1) => Refreshed
    /\ pc = "poll" =>
          /\ Len(rows) <= Len(worker_ports)
          /\ \A k \in 1..Len(rows) : rows[k].port = worker_ports[k]

\* The steps of a refresh: each poll adds the row of the next port in placement
\* order; the timer is reset only by a refresh that was due and has polled
\* every port once, to the time read in this iteration, and two resets are at
\* least the interval apart.
RefreshStep ==
    /\ (pc = "poll" /\ rows' # rows) =>
          /\ Len(rows') = Len(rows) + 1
          /\ SubSeq(rows', 1, Len(rows)) = rows
          /\ rows'[Len(rows')].port = worker_ports[Len(rows')]
    /\ (pc \in LoopPcs /\ last_stats_time' # last_stats_time) =>
          /\ pc = "poll"
          /\ Len(rows) = Len(worker_ports)
          /\ \A k \in 1..Len(rows) : rows[k].port = worker_ports[k]
          /\ last_stats_time' = current_time
          /\ last_stats_time' - last_stats_time >= 5
          /\ rows' = rows
    /\ (pc = "sleep" /\ pc' = "poll") => rows' = <<>>

\* C21: an iteration refreshes the stats exactly when at least STATS_INTERVAL
\* (5) has elapsed since the last refresh; a refresh polls every worker port
\* once in placement order, exited workers included, and resets the timer; the
\* first iteration refreshes and two refreshes are at least 5 apart.
C21_RefreshEveryInterval == []RefreshWhenDue /\ [][RefreshStep]_vars

\* The second refresh has polled both ports although worker 0 was reported
\* exited the iteration before.
C21_Witness ==
    /\ pc = "proxy_check"
    /\ Refreshed
    /\ current_time = Epoch + 1 + STATS_INTERVAL
    /\ Len(rows) = 2
    /\ <<"worker", 0>> \in last_reports
    /\ ~WorkerAt(0).alive

\* The row print_stats_table builds for the k-th port from the response r: a
\* failed request gives '-' in both fields, the 200 response of the running
\* worker its two counters.
RowFor(k, r) ==
    [port  |-> worker_ports[k],
     stats |-> IF r.exc # "none" THEN Stats(Dash, Dash)
               ELSE Stats(IntField(3), IntField(128))]

\* Whatever the rows built so far, in this cycle or an earlier one, the next
\* scrape can fail or succeed, and its row shows its own outcome only; no
\* scrape has ended the loop.
ScrapeIndependent ==
    /\ exit_cause # "uncaught"
    /\ \A k \in 1..Len(rows) : rows[k].stats.raised = "none"
    /\ (pc = "poll" /\ Len(rows) < Len(worker_ports)) =>
          \A r \in Responses :
              ENABLED (PollWorker /\ rows' = Append(rows, RowFor(Len(rows) + 1, r)))

\* A scrape adds one row and leaves the rows of the other workers, the
\* position of the loop and the exit state as they were; a cycle starts from
\* an empty table.
ScrapeStep ==
    /\ (pc = "poll" /\ rows' # rows) =>
          /\ \E r \in Responses : rows' = Append(rows, RowFor(Len(rows) + 1, r))
          /\ pc' = "poll"
          /\ UNCHANGED <<exit_status, exit_cause, procs, RUNNING_PROCESSES>>
    /\ (pc # "poll" /\ pc' = "poll") => rows' = <<>>
    /\ pc # "poll" => (rows' = rows \/ rows' = <<>>)

\* C22: a failed scrape does not end the loop, puts '-' in the row of its own
\* worker only, leaves the rows of the other workers of the cycle unchanged,
\* and nothing of it is carried into a later cycle, which starts from an empty
\* table.
C22_FailedScrapeLocal == []ScrapeIndependent /\ [][ScrapeStep]_vars

\* The second refresh is over: the scrape of the first worker failed, the one
\* of the second worker gave its counters, and the loop goes on.
C22_Witness ==
    /\ pc = "proxy_check"
    /\ current_time = Epoch + 1 + STATS_INTERVAL
    /\ Refreshed
    /\ Len(rows) = 2
    /\ rows[1].stats = Stats(Dash, Dash)
    /\ rows[2].stats = Stats(IntField(3), IntField(128))

\* ---- claims about what the loop and cleanup leave alone (under Spec) --------
\* The monitoring loop has been entered: the controller is in it, or has left
\* it through the break of the proxy check or through line 331.
LoopStarted ==
    \/ pc \in LoopPcs \cup {"stopping"}
    \/ (exit_cause \in {"proxy_died", "interrupt"} /\ exit_status = 0)

\* From the start of the loop on the registry holds the N workers and the proxy.
RegistryComplete ==
    LoopStarted =>
        /\ Len(RUNNING_PROCESSES) = NumWorkers + 1
        /\ Len(procs) = NumWorkers + 1
        /\ \A k \in 1..Len(RUNNING_PROCESSES) : RUNNING_PROCESSES[k] = k

\* No step taken after the start of the loop spawns a process, revives one or
\* touches the registry.
RegistryFrame ==
    LoopStarted =>
        /\ RUNNING_PROCESSES' = RUNNING_PROCESSES
        /\ UNCHANGED <<worker_ports, nginx_proc, current_port>>
        /\ Len(procs') = Len(procs)
        /\ \A p \in 1..Len(procs) :
              /\ procs'[p].alive => procs[p].alive
              /\ procs'[p].kind = procs[p].kind
              /\ procs'[p].port = procs[p].port
              /\ procs'[p].gpus = procs[p].gpus

\* C23: once the loop has started nothing is spawned again; the loop and
\* cleanup leave the registry as it is: an exited worker or proxy is not
\* restarted, its handle is neither removed nor replaced, and the registry
\* keeps its N+1 entries until the controller has exited.
C23_NoRestartRegistryFixed == []RegistryComplete /\ [][RegistryFrame]_vars

\* The controller has exited after cleanup with the registry of two workers
\* and the proxy intact, worker 0 having been reported exited and left so.
C23_Witness ==
    /\ pc = "exited"
    /\ LoopStarted
    /\ ci > Len(RUNNING_PROCESSES)
    /\ Len(RUNNING_PROCESSES) = 3
    /\ <<"worker", 0>> \in last_reports
    /\ ~EntryAt(1).alive

\* The list of ports planned for the N workers: START_PORT, START_PORT+1, ...
PlannedPortList == [k \in 1..NumWorkers |-> START_PORT + (k - 1)]

\* Once rendered, and all through the loop, the upstream list is the planned
\* list of worker ports.
ConfigIsPlanned ==
    /\ LoopStarted => nginx_conf.rendered
    /\ nginx_conf.rendered =>
          /\ Len(nginx_conf.upstream) = NumWorkers
          /\ \A k \in 1..NumWorkers : nginx_conf.upstream[k][2] = PlannedPortList[k]
          /\ worker_ports = PlannedPortList

\* The configuration is written by one step only, the render of setup, and
\* never again once rendered.
ConfigFrame ==
    nginx_conf' # nginx_conf =>
        /\ pc \in SetupPcs
        /\ ~nginx_conf.rendered
        /\ nginx_conf'.rendered

\* C24: the proxy configuration is rendered once, during setup, and no loop
\* iteration changes it: from the render on its upstream list is the planned
\* list of worker ports, the port of an exited worker included.
C24_ConfigRenderedOnce == []ConfigIsPlanned /\ [][ConfigFrame]_vars

\* Worker 0 has just been reported exited and its port is still the first
\* upstream entry.
C24_Witness ==
    /\ pc = "sleep"
    /\ reports = {<<"worker", 0>>}
    /\ ~WorkerAt(0).alive
    /\ nginx_conf.rendered
    /\ nginx_conf.upstream[1][2] = WorkerAt(0).port

====
